---- MODULE Spec2Model ----
(***************************************************************************)
(* Model of the 2D voxel traversal of src/src/raycast_2d.rs:               *)
(* BoundingVolume2, Ray2, VoxelRay2Iterator::new, Iterator::next and       *)
(* test_aabb_of_chunk.                                                     *)
(*                                                                         *)
(* f32 values are modelled as binary fixed-point numbers with FracBits     *)
(* fractional bits (the integer n stands for n / SCALE) together with the  *)
(* three IEEE special values +infinity, -infinity and NaN.  Every          *)
(* multiplication, division and square root rounds its exact result to the *)
(* nearest representable number, as the f32 operations do; addition and    *)
(* subtraction of finite numbers are exact.  The zero of the model is the  *)
(* positive zero.  Axes are numbered 1 (x) and 2 (y); the source numbers   *)
(* them 0 and 1.                                                           *)
(***************************************************************************)
EXTENDS Integers, Sequences, FiniteSets, TLC

\* ------------------------------------------------------------------ bounds
\* Number of fractional bits of the number model.
FracBits == 10
\* A caller pulls at most this many times from an exhausted cursor.
MaxNones == 3

SCALE == 2^FracBits

\* ---------------------------------------------------------- f32 arithmetic
PosInf == 2^30
NegInf == -(2^30)
NaN == 2^30 + 1

IsNaN(a) == a = NaN
IsInf(a) == a = PosInf \/ a = NegInf
IsFinite(a) == ~IsNaN(a) /\ ~IsInf(a)

\* n / d rounded to the nearest integer (halves upward), d # 0.
RoundDiv(n, d) ==
  IF d > 0 THEN (2 * n + d) \div (2 * d)
           ELSE (2 * (-n) + (-d)) \div (2 * (-d))

\* the integer nearest to the square root of n >= 0
RECURSIVE SqrtSearch(_, _, _)
SqrtSearch(n, lo, hi) ==
  IF hi - lo <= 1 THEN lo
  ELSE LET mid == (lo + hi) \div 2
       IN  IF mid * mid <= n THEN SqrtSearch(n, mid, hi)
                             ELSE SqrtSearch(n, lo, mid)

ISqrt(n) ==
  LET r == SqrtSearch(n, 0, 2^15)
  IN  IF n - r * r > r THEN r + 1 ELSE r

FSign(a) == IF a < 0 THEN -1 ELSE 1

FNeg(a) ==
  IF IsNaN(a) THEN NaN
  ELSE IF a = PosInf THEN NegInf
  ELSE IF a = NegInf THEN PosInf
  ELSE -a

FAdd(a, b) ==
  IF IsNaN(a) \/ IsNaN(b) THEN NaN
  ELSE IF IsInf(a) /\ IsInf(b) THEN (IF a = b THEN a ELSE NaN)
  ELSE IF IsInf(a) THEN a
  ELSE IF IsInf(b) THEN b
  ELSE a + b

FSub(a, b) == FAdd(a, FNeg(b))

FMul(a, b) ==
  IF IsNaN(a) \/ IsNaN(b) THEN NaN
  ELSE IF IsInf(a) \/ IsInf(b)
       THEN IF a = 0 \/ b = 0 THEN NaN
            ELSE IF FSign(a) = FSign(b) THEN PosInf ELSE NegInf
  ELSE RoundDiv(a * b, SCALE)

FDiv(a, b) ==
  IF IsNaN(a) \/ IsNaN(b) THEN NaN
  ELSE IF IsInf(a)
       THEN IF IsInf(b) THEN NaN
            ELSE IF FSign(a) = FSign(b) THEN PosInf ELSE NegInf
  ELSE IF IsInf(b) THEN 0
  ELSE IF b = 0
       THEN IF a = 0 THEN NaN
            ELSE IF a > 0 THEN PosInf ELSE NegInf
  ELSE RoundDiv(a * SCALE, b)

FSqrt(a) ==
  IF IsNaN(a) \/ a < 0 THEN NaN
  ELSE IF a = PosInf THEN PosInf
  ELSE ISqrt(a * SCALE)

FAbs(a) ==
  IF IsNaN(a) THEN NaN
  ELSE IF a < 0 THEN FNeg(a) ELSE a

\* comparisons: every comparison with NaN is false
FLt(a, b) == ~IsNaN(a) /\ ~IsNaN(b) /\ a < b
FLe(a, b) == ~IsNaN(a) /\ ~IsNaN(b) /\ a <= b
FGt(a, b) == FLt(b, a)
FGe(a, b) == FLe(b, a)

\* f32::min: the other operand when one is NaN
FMin(a, b) ==
  IF IsNaN(a) THEN b
  ELSE IF IsNaN(b) THEN a
  ELSE IF a < b THEN a ELSE b

\* i32 as f32
FromInt(n) == n * SCALE

\* f32::floor followed by the saturating cast `as i32` (NaN casts to 0)
FloorI(a) ==
  IF IsNaN(a) THEN 0
  ELSE IF a = PosInf THEN 2147483647
  ELSE IF a = NegInf THEN -2147483647 - 1
  ELSE a \div SCALE

\* f32::signum cast to i32: 1 for a number >= +0.0, -1 for a negative one
Signum(a) ==
  IF IsNaN(a) THEN 0
  ELSE IF a < 0 THEN -1 ELSE 1

\* f32::EPSILON (2^-23) lies below the resolution of the number model: the
\* only representable magnitude below it is 0, as for the smallest positive
\* model number.
EPSILON == 1

\* Vec2 helpers
VAdd(a, b) == <<FAdd(a[1], b[1]), FAdd(a[2], b[2])>>
VSub(a, b) == <<FSub(a[1], b[1]), FSub(a[2], b[2])>>
VScale(a, s) == <<FMul(a[1], s), FMul(a[2], s)>>
VLength(a) == FSqrt(FAdd(FMul(a[1], a[1]), FMul(a[2], a[2])))
VFloorI(a) == <<FloorI(a[1]), FloorI(a[2])>>
VFromInt(a) == <<FromInt(a[1]), FromInt(a[2])>>

\* Vec2::normalize: the vector times the reciprocal of its length
Normalize(a) == VScale(a, FDiv(SCALE, VLength(a)))

\* Option::None, for the normal of a hit and for a pull's result
None == <<>>

\* ------------------------------------------------------- BoundingVolume2
\* contains_point with the upper bound included (off by one)
ContainsPointInclusive(size, point) ==
  /\ point[1] >= 0 /\ point[2] >= 0
  /\ point[1] <= size[1] /\ point[2] <= size[2]

\* BoundingVolume2::contains_point
ContainsPoint(size, point) ==
  /\ point[1] >= 0 /\ point[2] >= 0
  /\ point[1] < size[1] /\ point[2] < size[2]

\* ---------------------------------------------------- test_aabb_of_chunk
\* the candidate distance of axis k: the near plane for a positive direction
\* component, the far plane otherwise
AabbT(size, from, direction, k) ==
  IF FGt(direction[k], 0)
  THEN FDiv(FSub(0, from[k]), direction[k])
  ELSE FDiv(FSub(FromInt(size[k]), from[k]), direction[k])

\* the gating axis: the one of the larger candidate, y on a tie
AabbMi(tx, ty) == IF FGt(tx, ty) THEN 1 ELSE 2

\* the range test of the candidate distance with the bounds excluded
AabbInRangeOpen(tm, distance) == FGt(tm, 0) /\ FLt(tm, distance)

\* the range test of the candidate distance
AabbInRange(tm, distance) == FGe(tm, 0) /\ FLe(tm, distance)

\* the bounds test of the intersection point on the other axis
AabbOtherOk(size, pt, o1) ==
  FGe(pt[o1], 0) /\ FLe(pt[o1], FromInt(size[o1]))

\* the intersection point, or None
TestAabbOfChunk(size, from, direction, distance) ==
  LET tx == AabbT(size, from, direction, 1)
      ty == AabbT(size, from, direction, 2)
      mi == AabbMi(tx, ty)
      tm == IF mi = 1 THEN tx ELSE ty
      pt == VAdd(from, VScale(direction, tm))
      o1 == IF mi = 1 THEN 2 ELSE 1
  IN  IF AabbInRange(tm, distance) /\ AabbOtherOk(size, pt, o1)
      THEN pt
      ELSE None

\* ------------------------------------------------ VoxelRay2Iterator::new
\* the Default value alone, the done flag forgotten
DefaultNotDone ==
  [volume |-> <<0, 0>>, max_d |-> 0, i |-> <<0, 0>>, step |-> <<0, 0>>,
   delta |-> <<0, 0>>, dist |-> <<0, 0>>, t_max |-> <<0, 0>>, t |-> 0,
   norm |-> None, done |-> FALSE]

\* the state returned when the pre-clip fails: done, every other field at
\* its Default value
DefaultDone ==
  [volume |-> <<0, 0>>, max_d |-> 0, i |-> <<0, 0>>, step |-> <<0, 0>>,
   delta |-> <<0, 0>>, dist |-> <<0, 0>>, t_max |-> <<0, 0>>, t |-> 0,
   norm |-> None, done |-> TRUE]

\* no back-off: the traversal starts at the intersection point
BackOffNone(aabb, d) == aabb

\* the starting point backed off from the intersection point
BackOff(aabb, d) == VSub(aabb, VScale(d, 2 * SCALE))

\* the jump distance without the compensation of the back-off
JumpTNoOffset(p, aabb) == FAdd(0, VLength(VSub(p, aabb)))

\* the distance the cursor starts with after the jump
JumpT(p, aabb) == FAdd(0, FSub(VLength(VSub(p, aabb)), 2 * SCALE))

\* the maximum travel distance
MaxD(length, t, size) ==
  FMin(length, FAdd(FAdd(t, VLength(VFromInt(size))), 2 * SCALE))

\* the stride of one axis
DeltaOf(dk) ==
  FAbs(IF FLt(FAbs(dk), EPSILON) THEN PosInf ELSE FDiv(SCALE, dk))

\* the distance to the first boundary of one axis
DistOf(stepk, ik, pk) ==
  IF stepk > 0 THEN FSub(FAdd(FromInt(ik), SCALE), pk)
               ELSE FSub(pk, FromInt(ik))

\* the ray distance of the first boundary of one axis
TMaxOf(deltak, distk) ==
  IF FLt(deltak, PosInf) THEN FMul(deltak, distk) ELSE PosInf

\* the cursor built from the starting point p and distance t
Stepper(size, length, d, p, t) ==
  LET i == VFloorI(p)
      step == <<Signum(d[1]), Signum(d[2])>>
      delta == <<DeltaOf(d[1]), DeltaOf(d[2])>>
      dist == <<DistOf(step[1], i[1], p[1]), DistOf(step[2], i[2], p[2])>>
      t_max == <<TMaxOf(delta[1], dist[1]), TMaxOf(delta[2], dist[2])>>
  IN  [volume |-> size, max_d |-> MaxD(length, t, size), i |-> i,
       step |-> step, delta |-> delta, dist |-> dist, t_max |-> t_max,
       t |-> t, norm |-> None, done |-> FALSE]

\* VoxelRay2Iterator::new
New(size, ray) ==
  LET p0 == ray.origin
      d == Normalize(ray.direction)
  IN  IF ~ContainsPoint(size, VFloorI(p0))
      THEN LET aabb == TestAabbOfChunk(size, p0, d, ray.length)
           IN  IF aabb = None
               THEN DefaultDone
               ELSE LET p == BackOff(aabb, d)
                    IN  Stepper(size, ray.length, d, p, JumpT(p, aabb))
      ELSE Stepper(size, ray.length, d, p0, 0)

\* ------------------------------------------------------------- the inputs
\* a length in units of 1/10
Tenths(n) == (n * SCALE) \div 10
\* a coordinate in units of 1/4
Quarters(n) == (n * SCALE) \div 4

Directions ==
  { <<SCALE, SCALE>>, <<SCALE, 0>>, <<0, SCALE>>, <<-SCALE, 0>>,
    <<-SCALE, -SCALE>>, <<SCALE, -SCALE>>, <<4 * SCALE, 3 * SCALE>>,
    <<-3 * SCALE, 4 * SCALE>>, <<2 * SCALE, -5 * SCALE>> }

\* small volumes, one with a zero and one with a negative extent, and origins
\* around them
GridVolumes == { <<1, 1>>, <<3, 2>>, <<2, 0>>, <<-1, 2>> }
GridCoords == { Quarters(-10), Quarters(-2), Quarters(1), Quarters(2),
                Quarters(4), Quarters(6), Quarters(14) }
GridLengths == { 0, Tenths(4), Tenths(15), Tenths(40), PosInf }

GridInputs ==
  { [volume |-> v, origin |-> <<x, y>>, direction |-> dir, length |-> len] :
      v \in GridVolumes, x \in GridCoords, y \in GridCoords,
      dir \in Directions, len \in GridLengths }

\* the 8 x 8 volume of the examples, with the rays of the examples
\* (examples/2d_volume.rs) and rays near them
ExampleOrigins ==
  { <<Quarters(-40), Quarters(-40)>>, <<Quarters(-4), Quarters(-4)>>,
    <<Quarters(-4), Quarters(18)>>, <<Quarters(-2), Quarters(1)>>,
    <<Quarters(18), Quarters(18)>>, <<Quarters(34), Quarters(10)>> }
ExampleLengths == { Tenths(15), Tenths(150), Tenths(1000), PosInf }

ExampleInputs ==
  { [volume |-> <<8, 8>>, origin |-> o, direction |-> dir, length |-> len] :
      o \in ExampleOrigins, dir \in Directions, len \in ExampleLengths }

Inputs == GridInputs \cup ExampleInputs

\* ---------------------------------------------------------------- state
VARIABLES
  bv,      \* the caller's BoundingVolume2 (its size)
  ray,     \* the caller's Ray2
  volume, max_d, i, step, delta, dist, t_max, t, norm, done,
           \* the fields of VoxelRay2Iterator
  pc,      \* "idle": between pulls; "loop": inside the while loop of next
  hits,    \* the hits returned so far, in order
  ret,     \* what the last completed pull returned (None before any)
  nones    \* the number of pulls that returned None

cursor == <<volume, max_d, i, step, delta, dist, t_max, t, norm, done>>
vars == <<bv, ray, volume, max_d, i, step, delta, dist, t_max, t, norm, done,
          pc, hits, ret, nones>>

\* volume.traverse_ray(ray): the cursor as constructed
Init ==
  \E inp \in Inputs :
    LET c == New(inp.volume,
                 [origin |-> inp.origin, direction |-> inp.direction,
                  length |-> inp.length])
    IN  /\ bv = inp.volume
        /\ ray = [origin |-> inp.origin, direction |-> inp.direction,
                  length |-> inp.length]
        /\ volume = c.volume /\ max_d = c.max_d /\ i = c.i
        /\ step = c.step /\ delta = c.delta /\ dist = c.dist
        /\ t_max = c.t_max /\ t = c.t /\ norm = c.norm /\ done = c.done
        /\ pc = "idle" /\ hits = <<>> /\ ret = None /\ nones = 0

\* --------------------------------------------- Iterator::next, step by step
\* the loop condition with a strict comparison
LoopGuardStrict(tt, md) == FLt(tt, md)

\* the loop condition of next
LoopGuard(tt, md) == FLe(tt, md)

\* the axis selection with the tie given to x
SelectAxisTieX(tm) == IF FLe(tm[1], tm[2]) THEN 1 ELSE 2

\* the axis selection with the comparison reversed
SelectAxisLarger(tm) == IF FGt(tm[1], tm[2]) THEN 1 ELSE 2

\* the axis the step advances: x when its t_max is smaller, else y
SelectAxis(tm) == IF FLt(tm[1], tm[2]) THEN 1 ELSE 2

\* the hit prepared for the current cell, or None
PrepareHit(size, cell, tt, n) ==
  IF ContainsPoint(size, cell)
  THEN [distance |-> tt, voxel |-> cell, normal |-> n]
  ELSE None

\* the normal along the direction of travel instead of against it
StepNormalForward(k, st) == IF k = 1 THEN <<st[1], 0>> ELSE <<0, st[2]>>

\* the normal of the face crossed by a step of axis k
StepNormal(k, st) == IF k = 1 THEN <<-st[1], 0>> ELSE <<0, -st[2]>>

\* a pull of an exhausted cursor: returns None at once
NextDone ==
  /\ pc = "idle" /\ done
  /\ nones < MaxNones
  /\ ret' = None /\ nones' = nones + 1
  /\ UNCHANGED <<bv, ray, cursor, pc, hits>>

\* one iteration of the while loop (the first one of a pull when pc = "idle"):
\* prepare the hit, step, and return the hit if there is one
LoopBody ==
  /\ ~done /\ LoopGuard(t, max_d)
  /\ LET hit == PrepareHit(volume, i, t, norm)
         k == SelectAxis(t_max)
     IN  /\ i' = [i EXCEPT ![k] = i[k] + step[k]]
         /\ t' = t_max[k]
         /\ t_max' = [t_max EXCEPT ![k] = FAdd(t_max[k], delta[k])]
         /\ norm' = StepNormal(k, step)
         /\ IF hit # None
            THEN /\ hits' = Append(hits, hit) /\ ret' = hit /\ pc' = "idle"
            ELSE /\ hits' = hits /\ ret' = ret /\ pc' = "loop"
  /\ UNCHANGED <<bv, ray, volume, max_d, step, delta, dist, done, nones>>

\* the loop exit without the done flag
LoopExitNoFlag ==
  /\ ~done /\ ~LoopGuard(t, max_d)
  /\ ret' = None /\ nones' = nones + 1 /\ pc' = "idle"
  /\ UNCHANGED <<bv, ray, cursor, hits>>

\* the loop condition fails: the cursor is exhausted and the pull returns None
LoopExit ==
  /\ ~done /\ ~LoopGuard(t, max_d)
  /\ done' = TRUE /\ ret' = None /\ nones' = nones + 1 /\ pc' = "idle"
  /\ UNCHANGED <<bv, ray, volume, max_d, i, step, delta, dist, t_max, t,
                 norm, hits>>

Next == NextDone \/ LoopBody \/ LoopExit

Spec == Init /\ [][Next]_vars

\* a caller that keeps pulling: every enabled step of next is eventually taken
FairSpec == Spec /\ WF_vars(Next)

\* ------------------------------------------------------------- the claims
\* the containment predicate of the caller's volume
InVolume(v) == 0 <= v[1] /\ v[1] < bv[1] /\ 0 <= v[2] /\ v[2] < bv[2]
\* the voxel of the ray's origin
OriginVoxel == <<ray.origin[1] \div SCALE, ray.origin[2] \div SCALE>>
OriginInside == InVolume(OriginVoxel)
\* the number of completed pulls
Pulls == Len(hits) + nones
\* the cursor was constructed by the stepping path (not as the exhausted
\* default) and has not stepped yet
Unstepped == norm = None /\ hits = <<>> /\ nones = 0 /\ volume = bv

\* C1: every emitted hit's voxel (x, y) satisfies 0 <= x < size.x and
\* 0 <= y < size.y, whatever the volume, the ray and the number of pulls; a
\* visited cell outside the volume is never reported.
C1_HitsContained ==
  /\ \A k \in 1..Len(hits) : InVolume(hits[k].voxel)
  /\ (ret # None => InVolume(ret.voxel))

\* C1 witness: a ray that started outside the volume, so that cells outside
\* were visited and skipped, has emitted a hit and then left the volume again
C1_Witness ==
  /\ ~OriginInside /\ Len(hits) >= 2 /\ pc = "loop" /\ ~InVolume(i)

\* the distances of the emitted hits never decrease
HitsMonotone ==
  \A k \in 1..(Len(hits) - 1) : FLe(hits[k].distance, hits[k + 1].distance)
\* every emitted distance is >= 0
HitsNonNegative == \A k \in 1..Len(hits) : FGe(hits[k].distance, 0)

\* C2 as stated: the distance of each emitted hit is >= the distance of the
\* hit before it; the cursor's t never decreases across steps, and it starts
\* from t >= 0.
C2_AsStated ==
  /\ [](HitsMonotone /\ (Unstepped => FGe(t, 0)))
  /\ [][FLe(t, t')]_vars

\* C2 amended: the distance of each emitted hit is >= the distance of the
\* hit before it and >= 0, and the cursor's t never decreases across steps;
\* the t a cursor starts with may be negative (after a pre-clip it is the
\* rounded length of the back-off minus two).
C2_Monotone ==
  /\ [](HitsMonotone /\ HitsNonNegative)
  /\ [][FLe(t, t')]_vars

\* C2 witness: a cursor that started from a pre-clip has emitted two hits at
\* different distances
C2_Witness ==
  /\ ~OriginInside /\ Len(hits) >= 2
  /\ FLt(hits[1].distance, hits[2].distance)

\* C3: a hit's normal is absent exactly when it is the first emitted hit and
\* floor(origin) was contained in the volume at construction; when the origin
\* voxel is outside and the pre-clip succeeds, the backed-off starting cell is
\* outside the volume.
C3_NormalPlacement ==
  /\ \A k \in 1..Len(hits) :
       (hits[k].normal = None) <=> (k = 1 /\ OriginInside)
  /\ (Unstepped /\ ~OriginInside => ~InVolume(i))

\* C3 witness: a ray from outside the volume whose pre-clip succeeded has
\* emitted hits
C3_Witness ==
  /\ ~OriginInside /\ Len(hits) >= 2 /\ hits[1].normal # None

\* C4: each call to next terminates and the cursor reaches the exhausted
\* state after finitely many pulls, for every input, the infinite rays and
\* the rays that never hit the volume included.
C4_Terminates ==
  /\ (pc = "loop") ~> (pc = "idle")
  /\ <>(done /\ pc = "idle")

\* C4 witness: an infinite ray that passed the pre-clip, stepped through the
\* loop without a hit and is exhausted
C4_Witness ==
  /\ done /\ ray.length = PosInf /\ volume = bv /\ hits = <<>>
  /\ ~OriginInside

\* C5: exhaustion is absorbing: once the cursor is exhausted (a pull returned
\* None, or it was constructed exhausted), the done flag stays set, every
\* later pull returns None and no hit is emitted.
C5_Absorbing ==
  /\ [](nones > 0 => done)
  /\ [][done => (done' /\ hits' = hits /\ ret' = None)]_vars

\* C5 witness: a cursor that emitted hits has returned None twice
C5_Witness == Len(hits) >= 1 /\ nones >= 2

\* ------------------------------------------- the geometry the claims name
\* The reference geometry is computed in the same rounded arithmetic; a
\* comparison of it allows for Tol of accumulated rounding error, so that only
\* a difference far above the rounding error counts.
Tol == SCALE \div 16

Max2(a, b) == IF a > b THEN a ELSE b
Min2(a, b) == IF a < b THEN a ELSE b

\* normalize(direction) of the caller's ray
RayDir == Normalize(ray.direction)
\* the point origin + normalize(direction) * s
PointAt(s) == VAdd(ray.origin, VScale(RayDir, s))
\* the closed unit cell of voxel v holds the point
InClosedCell(pt, v) ==
  \A k \in 1..2 :
    /\ FromInt(v[k]) - Tol <= pt[k]
    /\ pt[k] <= FromInt(v[k] + 1) + Tol

\* the ray distances at which the ray enters and leaves the slab of voxel v on
\* axis k
SlabNear(v, k) ==
  LET o == ray.origin[k]
      lo == FromInt(v[k])
      hi == FromInt(v[k] + 1)
  IN  IF RayDir[k] > 0 THEN FDiv(lo - o, RayDir[k])
      ELSE IF RayDir[k] < 0 THEN FDiv(hi - o, RayDir[k])
      ELSE IF lo <= o /\ o <= hi THEN NegInf ELSE PosInf
SlabFar(v, k) ==
  LET o == ray.origin[k]
      lo == FromInt(v[k])
      hi == FromInt(v[k] + 1)
  IN  IF RayDir[k] > 0 THEN FDiv(hi - o, RayDir[k])
      ELSE IF RayDir[k] < 0 THEN FDiv(lo - o, RayDir[k])
      ELSE IF lo <= o /\ o <= hi THEN PosInf ELSE NegInf

\* the part of the segment [0, length] inside the cell of voxel v
SegEnter(v) == Max2(0, Max2(SlabNear(v, 1), SlabNear(v, 2)))
SegExit(v) == Min2(ray.length, Min2(SlabFar(v, 1), SlabFar(v, 2)))

\* the segment from origin to origin + normalize(direction) * length meets the
\* closed cell of v
SegmentMeetsCell(v) == SegEnter(v) <= FAdd(SegExit(v), Tol)
\* the segment crosses the interior of the cell of v
InteriorCrossed(v) == FAdd(SegEnter(v), Tol) < SegExit(v)

VolumeCells == (0..(bv[1] - 1)) \X (0..(bv[2] - 1))
Emitted(v) == \E k \in 1..Len(hits) : hits[k].voxel = v

\* C6: every emitted hit's distance is the distance travelled from the ray's
\* origin: the point origin + normalize(direction) * distance lies in the
\* closed cell of the emitted voxel, also after a pre-clip.
C6_DistanceFromOrigin ==
  \A k \in 1..Len(hits) :
    InClosedCell(PointAt(hits[k].distance), hits[k].voxel)

\* C7: every emitted voxel is a cell the ray passes through within its
\* declared length: the segment from origin to
\* origin + normalize(direction) * length meets the closed cell of each
\* emitted voxel, also for a ray that starts outside the volume.
C7_WithinLength ==
  \A k \in 1..Len(hits) : SegmentMeetsCell(hits[k].voxel)

\* C8: no cell is missed: for a ray with both direction components non-zero,
\* once the traversal is exhausted every voxel of the volume whose interior
\* the segment crosses has been emitted, and the crossed voxels were emitted
\* in the order the segment enters them.
C8_NoCellMissed ==
  (done /\ RayDir[1] # 0 /\ RayDir[2] # 0) =>
    /\ \A v \in VolumeCells : InteriorCrossed(v) => Emitted(v)
    /\ \A a, b \in 1..Len(hits) :
         ( /\ InteriorCrossed(hits[a].voxel) /\ InteriorCrossed(hits[b].voxel)
           /\ FAdd(SegEnter(hits[a].voxel), Tol) < SegEnter(hits[b].voxel) )
         => a < b

\* the ray of examples/2d_volume.rs: volume (8, 8), origin (-10, -10),
\* direction (1, 1), length 100
DiagonalExample ==
  /\ bv = <<8, 8>>
  /\ ray.origin = <<FromInt(-10), FromInt(-10)>>
  /\ ray.direction = <<SCALE, SCALE>>
  /\ ray.length = FromInt(100)

\* the cells the stepping visits along the main diagonal of an N x N volume:
\* (0,0), (0,1), (1,1), (1,2), ..., (N-1,N-1)
StairCell(k) == <<(k - 1) \div 2, k \div 2>>

\* C9 as stated: the diagonal example emits exactly N = 8 hits, the voxels
\* (0,0), (1,1), ..., (7,7) in that order, with strictly increasing distances
\* and a present normal on the first hit.
C9_AsStated ==
  (DiagonalExample /\ done) =>
    /\ Len(hits) = bv[1]
    /\ \A k \in 1..Len(hits) : hits[k].voxel = <<k - 1, k - 1>>
    /\ \A k \in 1..(Len(hits) - 1) :
         FLt(hits[k].distance, hits[k + 1].distance)
    /\ hits[1].normal # None

\* C9 amended: the diagonal example emits exactly 2N - 1 = 15 hits, the
\* voxels (0,0), (0,1), (1,1), (1,2), ..., (7,7) in that order: the ray
\* crosses every corner on a tie of t_max, where y is stepped before x, so
\* the cell (k, k+1) is emitted between (k, k) and (k+1, k+1).  The
\* distances never decrease, (k, k+1) and (k+1, k+1) have the same distance
\* and it is greater than that of (k, k); every normal is present, (-1, 0)
\* on the diagonal cells and (0, -1) on the others.
C9_Diagonal ==
  DiagonalExample =>
    /\ Len(hits) <= 2 * bv[1] - 1
    /\ (done => Len(hits) = 2 * bv[1] - 1)
    /\ \A k \in 1..Len(hits) :
         /\ hits[k].voxel = StairCell(k)
         /\ hits[k].normal = IF k % 2 = 1 THEN <<-1, 0>> ELSE <<0, -1>>
    /\ \A k \in 1..(Len(hits) - 1) :
         IF k % 2 = 1 THEN FLt(hits[k].distance, hits[k + 1].distance)
                      ELSE hits[k].distance = hits[k + 1].distance

\* C9 witness: the diagonal example is exhausted after its hits
C9_Witness == DiagonalExample /\ done /\ Len(hits) = 15 /\ nones = 1

\* the hit of the cell the ray starts in
OriginHit == [distance |-> 0, voxel |-> OriginVoxel, normal |-> None]

\* the distance along the ray from the origin to the first cell boundary of
\* axis k (infinite when the ray does not move on the axis)
BoundaryDistance(k) ==
  LET o == ray.origin[k]
      lo == FromInt(OriginVoxel[k])
  IN  IF RayDir[k] > 0 THEN FDiv(lo + SCALE - o, RayDir[k])
      ELSE IF RayDir[k] < 0 THEN FDiv(o - lo, -RayDir[k])
      ELSE PosInf
FirstBoundary == Min2(BoundaryDistance(1), BoundaryDistance(2))

\* C10: if floor(origin) is contained in the volume then, for any length >= 0,
\* the first pull returns the hit (floor(origin), distance 0, normal absent);
\* and if the length is smaller than the distance along the ray to the first
\* cell boundary, that hit is the only one of the traversal: the second pull
\* returns None.
C10_OriginHit ==
  OriginInside =>
    /\ (Pulls >= 1 => Len(hits) >= 1 /\ hits[1] = OriginHit)
    /\ (Pulls = 1 => ret = OriginHit)
    /\ (FLt(ray.length, FirstBoundary) =>
          /\ Len(hits) <= 1
          /\ (Pulls >= 2 => done /\ ret = None))

\* C10 witness: the ray of length 0.4 inside the 1 x 1 volume has returned
\* its only hit and then None
C10_Witness ==
  /\ bv = <<1, 1>> /\ ray.origin = <<Quarters(2), Quarters(2)>>
  /\ ray.direction = <<SCALE, 0>> /\ ray.length = Tenths(4)
  /\ hits = <<OriginHit>> /\ done /\ nones = 1

\* the pre-clip of the caller's ray against the caller's volume
PreClip == TestAabbOfChunk(bv, ray.origin, RayDir, ray.length)

\* the second ray of examples/2d_volume.rs: volume (8, 8), origin (-1, -1),
\* direction (1, 0), infinite length
MissExample ==
  /\ bv = <<8, 8>>
  /\ ray.origin = <<FromInt(-1), FromInt(-1)>>
  /\ ray.direction = <<SCALE, 0>>
  /\ ray.length = PosInf

\* C11: when floor(origin) is not contained in the volume and the pre-clip
\* reports no intersection, the cursor is constructed exhausted: done is set
\* from the start, every pull returns None and no hit is ever emitted.
C11_MissIsExhausted ==
  (~OriginInside /\ PreClip = None) =>
    /\ done /\ pc = "idle"
    /\ hits = <<>> /\ ret = None

\* C11 witness: the missing ray of the example has been pulled twice
C11_Witness == MissExample /\ PreClip = None /\ nones = 2 /\ hits = <<>>

\* a volume with a zero or negative extent
Degenerate == bv[1] <= 0 \/ bv[2] <= 0

\* C12: a volume with a zero or negative extent is accepted, and every
\* traversal of it emits no hit and reaches exhaustion after finitely many
\* steps of a caller that keeps pulling.
C12_DegenerateVolume ==
  /\ [](Degenerate => hits = <<>>)
  /\ <>(Degenerate => (done /\ pc = "idle"))

\* C12 witness: a traversal of a degenerate volume passed the pre-clip,
\* stepped through the loop and is exhausted without a hit
C12_Witness ==
  /\ Degenerate /\ volume = bv /\ norm # None /\ done /\ hits = <<>>

\* a step of the traversal has been taken
Stepped == i' # i \/ t_max' # t_max \/ norm' # norm

\* the effect of advancing axis k on the cell, the distance, the crossing
\* distances and the pending normal; the other axis m keeps its coordinate
\* and its crossing distance
Advances(k, m) ==
  /\ i'[k] = i[k] + step[k] /\ i'[m] = i[m]
  /\ t' = t_max[k]
  /\ t_max'[k] = FAdd(t_max[k], delta[k]) /\ t_max'[m] = t_max[m]
  /\ norm'[k] = -step[k] /\ norm'[m] = 0

\* C13: every step advances the axis with the smaller t_max, and on an exact
\* tie of t_max.x and t_max.y it advances y: the voxel's y changes by step.y,
\* t becomes the old t_max.y, t_max.y grows by delta.y and the pending normal
\* becomes (0, -step.y), while x and t_max.x are unchanged.
C13_TieBreak ==
  [][Stepped =>
       /\ (t_max[1] < t_max[2] => Advances(1, 2))
       /\ (t_max[2] < t_max[1] => Advances(2, 1))
       /\ (t_max[1] = t_max[2] => Advances(2, 1))]_vars

\* C13 witness: the step just taken advanced y to a distance equal to the
\* untouched t_max.x, that is, it was taken on an exact tie
C13_Witness ==
  /\ norm # None /\ norm[1] = 0
  /\ t = t_max[1] /\ IsFinite(t)
  /\ Len(hits) >= 2

\* the ray is parallel to axis m (its component on axis k0 is zero), its
\* origin lies before the volume on axis m and points at it, the row through
\* the origin lies inside the volume, and the ray is long enough to cross the
\* whole row
AimedAtRow(k0, m) ==
  /\ ray.direction[k0] = 0 /\ ray.direction[m] # 0
  /\ 0 <= OriginVoxel[k0] /\ OriginVoxel[k0] < bv[k0]
  /\ bv[m] > 0
  /\ \/ ray.direction[m] > 0 /\ ray.origin[m] < 0
        /\ FGe(ray.length, FSub(FromInt(bv[m]), ray.origin[m]))
     \/ ray.direction[m] < 0 /\ ray.origin[m] >= FromInt(bv[m])
        /\ FGe(ray.length, ray.origin[m])

\* the k-th cell of the row through the origin, in the direction of travel
RowCell(k0, m, k) ==
  [c \in {k0, m} |->
     IF c = k0 THEN OriginVoxel[k0]
     ELSE IF ray.direction[m] > 0 THEN k - 1 ELSE bv[m] - k]

\* C15: an axis-aligned ray whose origin voxel is outside the volume, that
\* points at the volume along a row or column lying inside it, passes the
\* pre-clip and emits one hit for each voxel of that row or column; the
\* infinite candidate distance of the zero component does not reject it.
C15_AxisAlignedRow ==
  \A k0 \in {1, 2} :
    LET m == 3 - k0
    IN  (AimedAtRow(k0, m) /\ done /\ pc = "idle" /\ nones > 0) =>
          /\ PreClip # None
          /\ Len(hits) = bv[m]
          /\ \A k \in 1..Len(hits) :
               /\ hits[k].voxel[k0] = RowCell(k0, m, k)[k0]
               /\ hits[k].voxel[m] = RowCell(k0, m, k)[m]

\* the hit made of the cell the cursor is in
CurrentHit == [distance |-> t, voxel |-> i, normal |-> norm]

\* the length of the volume's corner-to-corner diagonal
Diagonal == FSqrt(FAdd(FMul(FromInt(bv[1]), FromInt(bv[1])),
                       FMul(FromInt(bv[2]), FromInt(bv[2]))))

\* C16: the cell the cursor is in is emitted if and only if it is contained
\* in the volume and was reached at a distance t <= max_d, where max_d is
\* min(ray length, initial t + diagonal of the volume + 2) and never changes;
\* so no emitted distance exceeds the ray's length, and a contained cell
\* reached at exactly max_d is emitted.
C16_EmittedWithinMaxD ==
  /\ [](Unstepped =>
          max_d = Min2(ray.length, t + Diagonal + FromInt(2)))
  /\ [][max_d' = max_d]_vars
  /\ [][/\ hits' # hits <=> (~done /\ InVolume(i) /\ t <= max_d)
        /\ hits' # hits => (hits' = Append(hits, CurrentHit) /\ ret' = CurrentHit)
       ]_vars
  /\ [](\A k \in 1..Len(hits) : hits[k].distance <= ray.length)

\* C16 witness: a hit was emitted at a distance equal to max_d
C16_Witness ==
  /\ hits # <<>>
  /\ hits[Len(hits)].distance = max_d
  /\ InVolume(hits[Len(hits)].voxel)

\* axis k0 is the one zero component of the direction, and the cursor was
\* constructed by the stepping path
ZeroAxis(k0) ==
  /\ ray.direction[k0] = 0 /\ ray.direction[3 - k0] # 0
  /\ volume = bv

SelectedPlane(k) == IF FGt(RayDir[k], 0) THEN 0 ELSE FromInt(bv[k])

\* the distance along the ray at which it meets the selected plane of axis k
Candidate(k) == FDiv(FSub(SelectedPlane(k), ray.origin[k]), RayDir[k])

\* the gating axis: the one of the larger candidate, the higher index on a tie
Gating == IF FGt(Candidate(1), Candidate(2)) THEN 1 ELSE 2

\* the ray's point at the gating distance
GatePoint ==
  <<FAdd(ray.origin[1], FMul(RayDir[1], Candidate(Gating))),
    FAdd(ray.origin[2], FMul(RayDir[2], Candidate(Gating)))>>

\* the gating distance lies in [0, length] and the point there lies in
\* [0, size] on the other axis
Intersects ==
  /\ FGe(Candidate(Gating), 0) /\ FLe(Candidate(Gating), ray.length)
  /\ FGe(GatePoint[3 - Gating], 0)
  /\ FLe(GatePoint[3 - Gating], FromInt(bv[3 - Gating]))

\* C18: the pre-clip returns a point exactly when the larger candidate
\* distance lies in [0, length] and the ray's point at that distance lies in
\* [0, size] on the other axis; the point is origin + direction * distance and
\* lies (up to rounding) on the gating axis's selected plane; on a tie of the
\* candidates the higher-indexed axis gates; otherwise there is no point.
C18_PreClip ==
  /\ PreClip # None <=> Intersects
  /\ PreClip # None =>
       /\ PreClip = GatePoint
       /\ PreClip[Gating] - SelectedPlane(Gating) <= Tol
       /\ SelectedPlane(Gating) - PreClip[Gating] <= Tol
  /\ (~OriginInside /\ nones = 0) => (done <=> ~Intersects)

\* C18 witness: a ray from outside whose candidates tie passed the pre-clip
\* with y as the gating axis and was constructed by the stepping path
C18_Witness ==
  /\ ~OriginInside /\ Candidate(1) = Candidate(2) /\ IsFinite(Candidate(1))
  /\ PreClip # None /\ Gating = 2
  /\ volume = bv /\ ~done

\* the cell a hit's normal points back to
Behind(h) == <<h.voxel[1] + h.normal[1], h.voxel[2] + h.normal[2]>>

\* n is a unit vector along one axis, against the step sign of that axis
AgainstStep(n) == n = <<-step[1], 0>> \/ n = <<0, -step[2]>>

\* the hits so far: every present normal is a unit vector with one non-zero
\* component, the negated step sign of its axis, and voxel + normal is the cell visited
\* immediately before: not contained in the volume for the first hit of a ray
\* that started outside, and the previously emitted voxel for every later
\* hit, so the emitted hits are one contiguous run of the visited cells.
C19_NormalsChainHits ==
  /\ \A k \in 1..Len(hits) :
       hits[k].normal # None =>
         /\ AgainstStep(hits[k].normal)
         /\ step[1] \in {-1, 1} /\ step[2] \in {-1, 1}
         /\ (k = 1 => (~OriginInside /\ ~InVolume(Behind(hits[k]))))
  /\ \A k \in 2..Len(hits) :
       /\ hits[k].normal # None
       /\ Behind(hits[k]) = hits[k - 1].voxel
  /\ (norm # None => AgainstStep(norm))

\* C19, the steps: after every step the new cell plus the new pending normal
\* is the cell the cursor was in before the step.
C19_NormalPointsBack ==
  [][Stepped => <<i'[1] + norm'[1], i'[2] + norm'[2]>> = i]_vars

\* C19: every present normal is a unit vector with exactly one non-zero
\* component, the negated step sign of its axis; voxel + normal is the cell
\* visited immediately before, outside the volume for the first hit of a ray
\* that started outside and the previously emitted voxel for every later hit,
\* so the emitted hits form one contiguous run and the ray never re-enters.
C19_Normals == []C19_NormalsChainHits /\ C19_NormalPointsBack

\* C19 witness: a ray that started outside emitted at least three hits, left
\* the volume and ran to exhaustion
C19_Witness ==
  /\ ~OriginInside /\ Len(hits) >= 3
  /\ done /\ ~InVolume(i)

====
